---- MODULE Spec2Model ----
(***************************************************************************)
(* A model of scraper.py: the navigation-tree flattener, the detail        *)
(* fetcher, the thread-pool aggregation loop of Scraper.main and the final *)
(* save.                                                                   *)
(***************************************************************************)
EXTENDS Integers, Sequences, FiniteSets, TLC

VARIABLES
    pc,              \* position of the main thread in Scraper.main
    navtree_json,    \* the JSON document GET .../navtree yields
    NUM_THREADS,     \* self.__NUM_THREADS (args.threads)
    navtree_parsed,  \* the flattened work list (main, line 104)
    futures,         \* futures[i]: the future of navtree_parsed[i] (line 106)
    work_queue,      \* the executor's FIFO of submitted, not yet started items
    worker,          \* worker[w]: the item worker thread w runs, 0 when idle
    yieldq,          \* finished futures as_completed has still to yield, in order
    yielded,         \* number of futures as_completed has yielded so far
    controls,        \* self.__BENCHMARK_DATA["controls"], an insertion-ordered dict
    total,           \* self.__BENCHMARK_DATA["total"]
    stdout,          \* the lines printed by the aggregation loop
    output_file,     \* the saved file: None or its content
    exit_code,       \* the process's exit status, None while it runs
    resp,            \* resp[i]: the response the server gave to the fetch of item i
    observed,        \* the items whose futures the loop of line 107 has taken, in order
    raw_text,        \* the text handed to __parse_text when it is run on its own
    extracted        \* what __parse_text returned for raw_text, None before the call

vars == <<pc, navtree_json, NUM_THREADS, navtree_parsed, futures, work_queue, worker,
          yieldq, yielded, controls, total, stdout, output_file, exit_code, resp,
          observed, raw_text, extracted>>

\* Python's None, and a value that is there: an optional is a sequence of
\* length at most one
None == <<>>
Some(x) == <<x>>

\* ------------------------------------------------------------------ bounds
MaxThreads == 2     \* pool sizes 1..MaxThreads
MaxItems == 2       \* longest work list the aggregation phase is run on
MaxKids == 2        \* longest child list of a navigation-tree node
MaxLen == 3         \* longest text __parse_text is run on, on its own

\* ------------------------------------------------------------------ text
WS == {" ", "\n"}

RECURSIVE lstrip(_)
lstrip(text) ==
    IF text # <<>> /\ Head(text) \in WS THEN lstrip(Tail(text)) ELSE text

\* mutant: only one trailing whitespace character is removed
rstrip_once(text) ==
    IF text # <<>> /\ text[Len(text)] \in WS
    THEN SubSeq(text, 1, Len(text) - 1) ELSE text

RECURSIVE rstrip(_)
rstrip(text) ==
    IF text # <<>> /\ text[Len(text)] \in WS
    THEN rstrip(SubSeq(text, 1, Len(text) - 1)) ELSE text

\* str.strip(): a text is a sequence of characters
strip(text) == rstrip(lstrip(text))

\* Scraper.__parse_text
parse_text(text) ==
    LET _text == strip(text)
    IN  IF _text = <<>> THEN <<>> ELSE _text

\* ------------------------------------------------------------------ flattener
SUBS == "subsections_for_nav_tree"
RECS == "recommendations_for_nav_tree"

\* Python's `a and b` on a string a and a boolean b: a non-empty string is
\* truthy, so the value is b; an empty string is falsy, so the result is falsy.
StrAnd(a, b) == IF a # "" THEN b ELSE FALSE

\* mutant: one combined test, a node is emitted when it has neither key
emits_neither_key(subsection) ==
    ~ (RECS \in DOMAIN subsection \/ SUBS \in DOMAIN subsection)

\* the test of line 70: not ("recommendations_for_nav_tree" and
\* "subsections_for_nav_tree" in subsection)
emits(subsection) == ~ StrAnd(RECS, SUBS \in DOMAIN subsection)

\* the descriptor appended at lines 71-76
LeafItem(subsection) ==
    [id    |-> subsection.id,
     title |-> subsection.title,
     key   |-> subsection.view_level \o " " \o subsection.title,
     url   |-> "https://workbench.cisecurity.org/sections/" \o subsection.section_id
               \o "/recommendations/" \o subsection.id]

RECURSIVE extract_subsections(_, _), extract_each(_, _)
\* Scraper.__extract_subsections: the work list after visiting `subsection`
extract_subsections(subsection, navtree_list) ==
    LET l1 == IF SUBS \in DOMAIN subsection
              THEN extract_each(subsection[SUBS], navtree_list)
              ELSE navtree_list
        l2 == IF RECS \in DOMAIN subsection
              THEN extract_each(subsection[RECS], l1)
              ELSE l1
    IN  IF emits(subsection) THEN Append(l2, LeafItem(subsection)) ELSE l2

\* the for loops of lines 65-66, 68-69 and 98-99
extract_each(nodes, navtree_list) ==
    IF nodes = <<>> THEN navtree_list
    ELSE extract_each(Tail(nodes), extract_subsections(Head(nodes), navtree_list))

\* ------------------------------------------------------------------ inputs
\* the attributes every node of the navigation tree carries
RecAttrs ==
    { [id |-> "A", title |-> "Rec A",     view_level |-> "1.1", section_id |-> "10"],
      [id |-> "B", title |-> "Rec B",     view_level |-> "1.2", section_id |-> "10"],
      [id |-> "A", title |-> "Rec A bis", view_level |-> "2.1", section_id |-> "20"] }

SectionAttrs == [id |-> "S", title |-> "Section", view_level |-> "1", section_id |-> "10"]
ChapterAttrs == [id |-> "T", title |-> "Chapter", view_level |-> "0", section_id |-> "0"]

\* the sequences over S of length at most n
SeqsUpTo(S, n) == UNION { [1..k -> S] : k \in 0..n }

\* a node with attributes a, carrying each of the two child keys or not
NodesOver(a, subsLists, recsLists) ==
    {a}
    \cup { a @@ (SUBS :> s) : s \in subsLists }
    \cup { a @@ (RECS :> r) : r \in recsLists }
    \cup { a @@ (SUBS :> s) @@ (RECS :> r) : s \in subsLists, r \in recsLists }

\* bare recommendations
Level0 == RecAttrs
\* sections over recommendations
Level1 == NodesOver(SectionAttrs, SeqsUpTo(Level0, MaxKids), SeqsUpTo(Level0, MaxKids))
\* a chapter over at most one section, with recommendations of its own
Level2 == NodesOver(ChapterAttrs, SeqsUpTo(Level1, 1), SeqsUpTo(Level0, 1))

\* the navigation trees the flattener is run on
NavTreesFlatten ==
    { <<n>> : n \in Level0 \cup Level1 \cup Level2 }
    \cup { <<m, n>> : m \in Level0, n \in Level0 }

\* the navigation trees the whole pipeline is run on: one section that carries
\* both keys, with no subsections and up to MaxItems recommendations
NavTreesMain ==
    { << SectionAttrs @@ (SUBS :> <<>>) @@ (RECS :> r) >> : r \in SeqsUpTo(Level0, MaxItems) }

\* ------------------------------------------------------------------ detail fetcher
\* the eight elements __fetch_control looks up, in the order of lines 84-91
Locators ==
    << "assessment_status", "description", "rationale", "impact", "audit",
       "remediation", "default_value", "references" >>

LocatorSet == { Locators[i] : i \in DOMAIN Locators }

\* a detail page: the text of each located element it holds
PageWith(text) == [f \in LocatorSet |-> text]
PageLacking(text, f) == [g \in LocatorSet \ {f} |-> text]

\* _soup.find(...): the element, or None when the page has none
find(_soup, f) == IF f \in DOMAIN _soup THEN Some(_soup[f]) ELSE None

Pages ==
    { PageWith(<<" ", "a", "\n">>), PageLacking(<<"a">>, "references") }

\* what SESSION.get(url) can do: raise (no response), or yield a response
\* with a status and a body
NetworkFailure == [raised |-> "ConnectionError"]
Responses ==
    {NetworkFailure}
    \cup { [status |-> s, page |-> p] : s \in {200, 500}, p \in Pages }

\* mutant: the record takes its id from the key of the item
fetch_control_key_as_id(control, response) ==
    IF response = NetworkFailure
    THEN [exception |-> Some(response.raised), result |-> None]
    ELSE LET _soup == response.page
         IN  IF \E f \in LocatorSet : find(_soup, f) = None
             THEN [exception |-> Some("AttributeError"), result |-> None]
             ELSE [exception |-> None,
                   result |-> Some(
                     [id                |-> control.key,
                      key               |-> control.key,
                      title             |-> control.title,
                      assessment_status |-> parse_text(find(_soup, "assessment_status")[1]),
                      description       |-> parse_text(find(_soup, "description")[1]),
                      rationale         |-> parse_text(find(_soup, "rationale")[1]),
                      impact            |-> parse_text(find(_soup, "impact")[1]),
                      audit             |-> parse_text(find(_soup, "audit")[1]),
                      remediation       |-> parse_text(find(_soup, "remediation")[1]),
                      default_value     |-> parse_text(find(_soup, "default_value")[1]),
                      references        |-> parse_text(find(_soup, "references")[1])])]

\* Scraper.__fetch_control on `control` when the server answers `response`:
\* the record returned, or the exception raised. The response's status is
\* never looked at (line 79 takes .text at once); find() of a missing
\* element is None, whose .text raises AttributeError.
fetch_control(control, response) ==
    IF response = NetworkFailure
    THEN [exception |-> Some(response.raised), result |-> None]
    ELSE LET _soup == response.page
         IN  IF \E f \in LocatorSet : find(_soup, f) = None
             THEN [exception |-> Some("AttributeError"), result |-> None]
             ELSE [exception |-> None,
                   result |-> Some(
                     [id                |-> control.id,
                      key               |-> control.key,
                      title             |-> control.title,
                      assessment_status |-> parse_text(find(_soup, "assessment_status")[1]),
                      description       |-> parse_text(find(_soup, "description")[1]),
                      rationale         |-> parse_text(find(_soup, "rationale")[1]),
                      impact            |-> parse_text(find(_soup, "impact")[1]),
                      audit             |-> parse_text(find(_soup, "audit")[1]),
                      remediation       |-> parse_text(find(_soup, "remediation")[1]),
                      default_value     |-> parse_text(find(_soup, "default_value")[1]),
                      references        |-> parse_text(find(_soup, "references")[1])])]

\* ------------------------------------------------------------------ dict
\* a Python dict as the sequence of its items in insertion order
DictKeys(d) == { d[i].k : i \in DOMAIN d }
DictGet(d, key) == (CHOOSE i \in DOMAIN d : d[i].k = key)
DictValue(d, key) == d[DictGet(d, key)].v
\* mutant: a key that is there keeps its value (dict.setdefault)
DictSetDefault(d, key, value) ==
    IF key \in DictKeys(d) THEN d ELSE Append(d, [k |-> key, v |-> value])

\* d[key] = value: an existing key keeps its place, a new one goes last
DictSet(d, key, value) ==
    IF key \in DictKeys(d)
    THEN [d EXCEPT ![DictGet(d, key)] = [k |-> key, v |-> value]]
    ELSE Append(d, [k |-> key, v |-> value])

\* ------------------------------------------------------------------ state
BENCHMARK_TITLE == "Benchmark"

\* a navtree response without the "navtree" key (an error document)
NoNavtree == [message |-> "Unauthenticated."]

InitWith(trees) ==
    /\ pc = "parse"
    /\ navtree_json \in { [navtree |-> t] : t \in trees } \cup {NoNavtree}
    /\ NUM_THREADS \in 1..MaxThreads
    /\ navtree_parsed = <<>>
    /\ futures = <<>>
    /\ work_queue = <<>>
    /\ worker = [w \in 1..NUM_THREADS |-> 0]
    /\ yieldq = <<>>
    /\ yielded = 0
    /\ controls = <<>>
    /\ total = None
    /\ stdout = <<>>
    /\ output_file = None
    /\ exit_code = None
    /\ resp = <<>>
    /\ observed = <<>>
    /\ raw_text = <<>>
    /\ extracted = None

Init == InitWith(NavTreesMain)

\* ------------------------------------------------------------------ main thread
\* __parse_navtree returns the flattened tree
parse_navtree ==
    /\ pc = "parse"
    /\ "navtree" \in DOMAIN navtree_json
    /\ navtree_parsed' = extract_each(navtree_json["navtree"], <<>>)
    /\ pc' = "submit"
    /\ UNCHANGED <<navtree_json, NUM_THREADS, futures, work_queue, worker, yieldq, yielded,
                   controls, total, stdout, output_file, exit_code, resp,
                   observed, raw_text, extracted>>

\* mutant: the missing navtree is taken for an empty one and the run goes on
parse_navtree_swallows ==
    /\ pc = "parse"
    /\ "navtree" \notin DOMAIN navtree_json
    /\ pc' = "submit"
    /\ UNCHANGED <<navtree_json, NUM_THREADS, navtree_parsed, futures, work_queue, worker,
                   yieldq, yielded, controls, total, stdout, output_file, exit_code, resp,
                   observed, raw_text, extracted>>

\* .json()["navtree"] of line 96 raises KeyError: nothing catches it
parse_navtree_raises ==
    /\ pc = "parse"
    /\ "navtree" \notin DOMAIN navtree_json
    /\ pc' = "exited"
    /\ exit_code' = Some(1)
    /\ UNCHANGED <<navtree_json, NUM_THREADS, navtree_parsed, futures, work_queue, worker,
                   yieldq, yielded, controls, total, stdout, output_file, resp,
                   observed, raw_text, extracted>>

\* one executor.submit of the dict comprehension of line 106
submit ==
    /\ pc = "submit"
    /\ Len(futures) < Len(navtree_parsed)
    /\ futures' = Append(futures, [state |-> "PENDING", exception |-> None, result |-> None])
    /\ work_queue' = Append(work_queue, Len(futures) + 1)
    /\ UNCHANGED <<pc, navtree_json, NUM_THREADS, navtree_parsed, worker, yieldq, yielded,
                   controls, total, stdout, output_file, exit_code, resp,
                   observed, raw_text, extracted>>

\* the orders in which a set of indices can be listed
Orders(S) == { q \in [1..Cardinality(S) -> S] : \A i, j \in DOMAIN q : i # j => q[i] # q[j] }

Finished == { i \in DOMAIN futures : futures[i].state = "FINISHED" }

\* mutant: the loop stops one completion short
after_yield_short(n) == IF n >= Len(navtree_parsed) - 1 THEN "shutdown" ELSE "as_completed"

\* where the loop of line 107 goes once `n` futures have been yielded: the
\* generator is exhausted after the last one and the with block is left
after_yield(n) == IF n = Len(navtree_parsed) THEN "shutdown" ELSE "as_completed"

\* as_completed(futures) is called: the futures already finished are yielded
\* first, in the iteration order of a set; the others as they finish
as_completed ==
    /\ pc = "submit"
    /\ Len(futures) = Len(navtree_parsed)
    /\ yieldq' \in Orders(Finished)
    /\ pc' = after_yield(0)
    /\ UNCHANGED <<navtree_json, NUM_THREADS, navtree_parsed, futures, work_queue, worker,
                   yielded, controls, total, stdout, output_file, exit_code, resp,
                   observed, raw_text, extracted>>

\* mutant: the progress line counts from 0
progress_line_from_zero(index_control) ==
    [line |-> "Scraping", n |-> index_control, of |-> Len(navtree_parsed)]

\* line 112: print(f"Scraping {index_control+1}/{len(navtree_parsed)} controls...")
progress_line(index_control) ==
    [line |-> "Scraping", n |-> index_control + 1, of |-> Len(navtree_parsed)]

\* line 114: print(f"Error scraping control {control_id}: {e}")
error_line(control_id, e) == [line |-> "Error scraping control", id |-> control_id, e |-> e]

\* mutant: the except clause logs the failure and goes on with the next future
except_target_skip(n) == after_yield(n)

\* where the except clause of lines 113-115 leaves the main thread after the
\* n-th yield: exit(1) raises SystemExit inside the with block
except_target(n) == "abort"

\* mutant: the id is taken by position in the work list, not from the future
control_id_by_position(i) == navtree_parsed[yielded + 1].id

\* line 108: control_id = futures[future]["id"], for the future of item i
control_id_of(i) == navtree_parsed[i].id

\* one iteration of the loop of lines 107-115 whose future holds a result
loop_result ==
    /\ pc = "as_completed"
    /\ yieldq # <<>>
    /\ LET i == Head(yieldq)
           index_control == yielded
           control_id == control_id_of(i)
       IN  /\ futures[i].exception = None
           /\ controls' = DictSet(controls, control_id, futures[i].result[1])
           /\ stdout' = Append(stdout, progress_line(index_control))
           /\ yielded' = yielded + 1
           /\ observed' = Append(observed, i)
           /\ yieldq' = Tail(yieldq)
           /\ pc' = after_yield(yielded + 1)
    /\ UNCHANGED <<navtree_json, NUM_THREADS, navtree_parsed, futures, work_queue, worker,
                   total, output_file, exit_code, resp,
                   raw_text, extracted>>

\* mutant: the except clause submits the failed item again
loop_except_retry ==
    /\ pc = "as_completed"
    /\ yieldq # <<>>
    /\ LET i == Head(yieldq)
           control_id == control_id_of(i)
       IN  /\ futures[i].exception # None
           /\ stdout' = Append(stdout, error_line(control_id, futures[i].exception[1]))
           /\ futures' = [futures EXCEPT ![i] =
                   [state |-> "PENDING", exception |-> None, result |-> None]]
           /\ work_queue' = Append(work_queue, i)
           /\ yieldq' = Tail(yieldq)
    /\ UNCHANGED <<pc, navtree_json, NUM_THREADS, navtree_parsed, worker, yielded, controls,
                   total, output_file, exit_code, resp, observed, raw_text, extracted>>

\* one iteration of the loop whose future holds an exception
loop_except ==
    /\ pc = "as_completed"
    /\ yieldq # <<>>
    /\ LET i == Head(yieldq)
           control_id == control_id_of(i)
       IN  /\ futures[i].exception # None
           /\ stdout' = Append(stdout, error_line(control_id, futures[i].exception[1]))
           /\ yielded' = yielded + 1
           /\ observed' = Append(observed, i)
           /\ yieldq' = Tail(yieldq)
           /\ pc' = except_target(yielded + 1)
    /\ UNCHANGED <<navtree_json, NUM_THREADS, navtree_parsed, futures, work_queue, worker,
                   controls, total, output_file, exit_code, resp,
                   raw_text, extracted>>

\* mutant: the executor is left without joining its workers
threads_joined_nowait == TRUE

\* what ThreadPoolExecutor.__exit__ (shutdown(wait=True)) waits for: the
\* workers run every queued item and are joined
threads_joined == work_queue = <<>> /\ \A w \in DOMAIN worker : worker[w] = 0

\* the with block of line 105 is left normally
executor_exit ==
    /\ pc = "shutdown"
    /\ threads_joined
    /\ pc' = "total"
    /\ UNCHANGED <<navtree_json, NUM_THREADS, navtree_parsed, futures, work_queue, worker,
                   yieldq, yielded, controls, total, stdout, output_file, exit_code, resp,
                   observed, raw_text, extracted>>

\* the with block is left by SystemExit(1), which then ends the process
executor_exit_abort ==
    /\ pc = "abort"
    /\ threads_joined
    /\ pc' = "exited"
    /\ exit_code' = Some(1)
    /\ UNCHANGED <<navtree_json, NUM_THREADS, navtree_parsed, futures, work_queue, worker,
                   yieldq, yielded, controls, total, stdout, output_file, resp,
                   observed, raw_text, extracted>>

\* mutant: total counts the work list, not the records
total_value_items == Len(navtree_parsed)

\* len(self.__BENCHMARK_DATA["controls"])
total_value == Len(controls)

\* line 116
set_total ==
    /\ pc = "total"
    /\ total' = Some(total_value)
    /\ pc' = "save"
    /\ UNCHANGED <<navtree_json, NUM_THREADS, navtree_parsed, futures, work_queue, worker,
                   yieldq, yielded, controls, stdout, output_file, exit_code, resp,
                   observed, raw_text, extracted>>

\* the header row of line 124
CsvHeader ==
    << "id", "key", "title", "assessment_status", "description", "rationale", "impact",
       "audit", "remediation", "default_value", "references" >>

\* the keys of a record in insertion order: the order of the dict literal of
\* lines 80-92
RecordFields == << "id", "key", "title" >> \o Locators

\* mutant: the values are written in the alphabetical order of their keys
record_values_sorted(r) ==
    << r.assessment_status, r.audit, r.default_value, r.description, r.id, r.impact,
       r.key, r.rationale, r.references, r.remediation, r.title >>

\* controls.values() of one record: its values in insertion order
record_values(r) == [j \in DOMAIN RecordFields |-> r[RecordFields[j]]]

\* what lines 119-126 write in the given format
saved(format) ==
    IF format = "json"
    THEN [title |-> BENCHMARK_TITLE, controls |-> controls, total |-> total[1]]
    ELSE <<CsvHeader>> \o [j \in DOMAIN controls |-> record_values(controls[j].v)]

\* lines 117-126; main returns and the process ends
save ==
    /\ pc = "save"
    /\ \E format \in {"json", "csv"} :
           output_file' = Some([format |-> format, content |-> saved(format)])
    /\ pc' = "exited"
    /\ exit_code' = Some(0)
    /\ UNCHANGED <<navtree_json, NUM_THREADS, navtree_parsed, futures, work_queue, worker,
                   yieldq, yielded, controls, total, stdout, resp,
                   observed, raw_text, extracted>>

\* ------------------------------------------------------------------ worker threads
\* mutant: a worker takes the next item while its fetch is still running
idle_always(w) == TRUE

\* a worker thread takes a work item only between two items
idle(w) == worker[w] = 0

\* worker w takes the next queued item and starts its __fetch_control
worker_take(w) ==
    /\ idle(w)
    /\ work_queue # <<>>
    /\ worker' = [worker EXCEPT ![w] = Head(work_queue)]
    /\ work_queue' = Tail(work_queue)
    /\ futures' = [futures EXCEPT ![Head(work_queue)].state = "RUNNING"]
    /\ UNCHANGED <<pc, navtree_json, NUM_THREADS, navtree_parsed, yieldq, yielded, controls,
                   total, stdout, output_file, exit_code, resp,
                   observed, raw_text, extracted>>

\* mutant: the worker thread stores its record in controls itself
fetch_done_writes(w, response) ==
    /\ worker[w] # 0
    /\ LET i == worker[w]
           out == fetch_control(navtree_parsed[i], response)
       IN  /\ futures' = [futures EXCEPT ![i] =
                   [state |-> "FINISHED", exception |-> out.exception, result |-> out.result]]
           /\ resp' = (i :> response) @@ resp
           /\ yieldq' = IF pc = "as_completed" THEN Append(yieldq, i) ELSE yieldq
           /\ controls' = IF out.exception = None
                          THEN DictSet(controls, navtree_parsed[i].id, out.result[1])
                          ELSE controls
    /\ worker' = [worker EXCEPT ![w] = 0]
    /\ UNCHANGED <<pc, navtree_json, NUM_THREADS, navtree_parsed, work_queue, yielded,
                   total, stdout, output_file, exit_code, observed, raw_text, extracted>>

\* the fetch worker w runs returns or raises, the server having answered
\* `response`; a future that finishes while as_completed waits is queued
\* for it in order of completion
fetch_done(w, response) ==
    /\ worker[w] # 0
    /\ LET i == worker[w]
           out == fetch_control(navtree_parsed[i], response)
       IN  /\ futures' = [futures EXCEPT ![i] =
                   [state |-> "FINISHED", exception |-> out.exception, result |-> out.result]]
           /\ resp' = (i :> response) @@ resp
           /\ yieldq' = IF pc = "as_completed" THEN Append(yieldq, i) ELSE yieldq
    /\ worker' = [worker EXCEPT ![w] = 0]
    /\ UNCHANGED <<pc, navtree_json, NUM_THREADS, navtree_parsed, work_queue, yielded, controls,
                   total, stdout, output_file, exit_code,
                   observed, raw_text, extracted>>

Next ==
    \/ parse_navtree
    \/ parse_navtree_raises
    \/ submit
    \/ as_completed
    \/ loop_result
    \/ loop_except
    \/ executor_exit
    \/ executor_exit_abort
    \/ set_total
    \/ save
    \/ \E w \in DOMAIN worker : worker_take(w)
    \/ \E w \in DOMAIN worker, response \in Responses : fetch_done(w, response)

Spec == Init /\ [][Next]_vars

\* the steps of the main thread
MainThread ==
    \/ parse_navtree
    \/ parse_navtree_raises
    \/ submit
    \/ as_completed
    \/ loop_result
    \/ loop_except
    \/ executor_exit
    \/ executor_exit_abort
    \/ set_total
    \/ save

\* the threads are scheduled, and every fetch a worker runs returns or raises
FairSpec ==
    /\ Spec
    /\ WF_vars(MainThread)
    /\ WF_vars(\E w \in DOMAIN worker : worker_take(w))
    /\ WF_vars(\E w \in DOMAIN worker, response \in Responses : fetch_done(w, response))

\* the texts __parse_text is run on
Chars == WS \cup {"a", "b"}
Texts == SeqsUpTo(Chars, MaxLen)

\* one call of __parse_text
call_parse_text ==
    /\ pc = "text"
    /\ extracted = None
    /\ extracted' = Some(parse_text(raw_text))
    /\ UNCHANGED <<pc, navtree_json, NUM_THREADS, navtree_parsed, futures, work_queue,
                   worker, yieldq, yielded, controls, total, stdout, output_file,
                   exit_code, resp, observed, raw_text>>

\* __parse_text alone, on every text of Texts
InitText ==
    /\ pc = "text"
    /\ raw_text \in Texts
    /\ extracted = None
    /\ navtree_json = NoNavtree
    /\ NUM_THREADS = 1
    /\ worker = [w \in 1..NUM_THREADS |-> 0]
    /\ navtree_parsed = <<>> /\ futures = <<>> /\ work_queue = <<>> /\ yieldq = <<>>
    /\ yielded = 0 /\ controls = <<>> /\ total = None /\ stdout = <<>>
    /\ output_file = None /\ exit_code = None /\ resp = <<>> /\ observed = <<>>
NextText == call_parse_text
TextSpec == InitText /\ [][NextText]_vars

\* the flattener alone, on every navigation tree of NavTreesFlatten
InitFlatten == InitWith(NavTreesFlatten)
NextFlatten == parse_navtree \/ parse_navtree_raises
FlattenSpec == InitFlatten /\ [][NextFlatten]_vars

\* ------------------------------------------------------------------ properties
N == Len(navtree_parsed)

Failed(i) == futures[i].state = "FINISHED" /\ futures[i].exception # None
Succeeded(i) == futures[i].state = "FINISHED" /\ futures[i].exception = None
AnyFailed == \E i \in DOMAIN futures : Failed(i)
AllSucceeded == Len(futures) = N /\ \A i \in DOMAIN futures : Succeeded(i)
DistinctIds == \A i, j \in 1..N : i # j => navtree_parsed[i].id # navtree_parsed[j].id

\* once a fetch has failed the file is not written and the run does not end
\* with status 0, nor reach the steps that set total and save
C1_NoOutputAfterFailure ==
    AnyFailed =>
        /\ output_file = None
        /\ exit_code # Some(0)
        /\ pc \notin {"total", "save"}
        /\ (pc = "exited" <=> exit_code = Some(1))

\* C1 (fail-fast): once any fetch has failed, the output file is never
\* written and the run never ends with status 0, however many other fetches
\* have succeeded and been stored in controls; and, every fetch returning or
\* raising, the run then ends with exit status 1.
C1_FailFast ==
    /\ [] C1_NoOutputAfterFailure
    /\ AnyFailed ~> (pc = "exited" /\ exit_code = Some(1))

\* a run of two items that ended with status 1 after one fetch succeeded and
\* was stored and the other failed
C1_Witness ==
    /\ pc = "exited" /\ exit_code = Some(1) /\ output_file = None
    /\ N = 2 /\ Len(controls) = 1
    /\ \E i, j \in DOMAIN futures : Succeeded(i) /\ Failed(j)

\* C2 (aggregation uniqueness): when the ids of the N leaf items are pairwise
\* distinct and every fetch has succeeded and been observed, controls has
\* exactly N entries, the record of each item is stored under that item's
\* id, and total, once set, is N (also in the saved document).
C2_AggregationUniqueness ==
    (DistinctIds /\ pc \in {"shutdown", "total", "save", "exited"} /\ exit_code # Some(1)) =>
        /\ Len(controls) = N
        /\ Cardinality(DictKeys(controls)) = N
        /\ \A i \in 1..N :
              /\ navtree_parsed[i].id \in DictKeys(controls)
              /\ Some(DictValue(controls, navtree_parsed[i].id)) = futures[i].result
              /\ DictValue(controls, navtree_parsed[i].id).id = navtree_parsed[i].id
              /\ DictValue(controls, navtree_parsed[i].id).title = navtree_parsed[i].title
        /\ (pc \in {"save", "exited"} => total = Some(N))
        /\ (output_file # None /\ output_file[1].format = "json" =>
                output_file[1].content.total = N /\ output_file[1].content.controls = controls)

\* a finished run over two items with distinct ids whose completions were
\* observed in the reverse of the submission order
C2_Witness ==
    /\ pc = "exited" /\ exit_code = Some(0) /\ output_file # None
    /\ N = 2 /\ DistinctIds
    /\ controls[1].k = navtree_parsed[2].id

\* a node has children under a key when the key is there with a non-empty list
Kids(node, key) == IF key \in DOMAIN node THEN node[key] ELSE <<>>
IsLeaf(node) == Kids(node, SUBS) = <<>> /\ Kids(node, RECS) = <<>>

RECURSIVE DFLeaves(_), DFLeavesEach(_)
\* the leaves below a node in depth-first order, subsections first
DFLeaves(node) ==
    IF IsLeaf(node) THEN <<LeafItem(node)>>
    ELSE DFLeavesEach(Kids(node, SUBS)) \o DFLeavesEach(Kids(node, RECS))
DFLeavesEach(nodes) ==
    IF nodes = <<>> THEN <<>> ELSE DFLeaves(Head(nodes)) \o DFLeavesEach(Tail(nodes))

RECURSIVE OneVariant(_)
\* every node is a bare leaf, or has subsections only, or recommendations only
OneVariant(node) ==
    /\ ~ (SUBS \in DOMAIN node /\ RECS \in DOMAIN node)
    /\ \A key \in {SUBS, RECS} :
          key \in DOMAIN node =>
              node[key] # <<>> /\ \A j \in DOMAIN node[key] : OneVariant(node[key][j])

\* C3 (flattening completeness), as claimed: on a navigation tree whose nodes
\* are each a bare leaf, a node with subsections or a node with
\* recommendations, the flattener's output is exactly the leaves in
\* depth-first order, so no node that has children is in it.
C3_FlatteningCompleteness ==
    (pc = "submit" /\ \A j \in DOMAIN navtree_json["navtree"] :
                          OneVariant(navtree_json["navtree"][j])) =>
        navtree_parsed = DFLeavesEach(navtree_json["navtree"])

C5_AbortsWithoutWaiting ==
    pc = "abort" => ENABLED executor_exit_abort

\* C6, as claimed: once a failure has been observed, no item that no worker
\* had started is fetched any more.
C6_NoFetchStartsAfterFailure ==
    [][ pc = "abort" =>
          \A i \in DOMAIN futures :
              futures[i].state = "PENDING" => futures'[i].state = "PENDING" ]_vars

\* a response that must make the fetch fail: no response at all, a status
\* other than success, or a page without one of the eight elements
BadResponse(r) ==
    \/ r = NetworkFailure
    \/ r.status # 200
    \/ \E f \in LocatorSet : find(r.page, f) = None

\* C7, as claimed: every fetch answered by a bad response ends as a failed
\* fetch, the run then never saves, and every record in controls is the
\* record of an item whose response was a success with all eight elements.
C7_EveryFailureSurfaces ==
    /\ \A i \in DOMAIN resp :
          BadResponse(resp[i]) =>
              /\ Failed(i)
              /\ pc \notin {"shutdown", "total", "save"}
              /\ exit_code # Some(0)
    /\ \A j \in DOMAIN controls :
          \E i \in DOMAIN resp :
              futures[i].result = Some(controls[j].v) /\ ~ BadResponse(resp[i])

\* the consumer has observed a failed fetch
FailureObserved == pc = "abort" \/ (exit_code = Some(1) /\ yielded > 0)

\* C8, as claimed: after each observed completion, success or failure, a
\* progress line k/N is printed, k = 1, 2, ...
C8_ProgressAfterEveryCompletion ==
    /\ Len(stdout) = yielded
    /\ \A k \in DOMAIN stdout : stdout[k] = [line |-> "Scraping", n |-> k, of |-> N]

\* C8, amended: a progress line k/N is printed after each observed
\* successful completion, k = 1, 2, ... strictly increasing; an observed
\* failure prints an error line naming the item's id instead, and it is the
\* last line.
C8_ProgressAfterEachSuccess ==
    LET m == IF FailureObserved THEN yielded - 1 ELSE yielded
    IN  /\ Len(stdout) = yielded
        /\ m = Len(controls) \/ ~ DistinctIds
        /\ \A k \in DOMAIN stdout :
              IF k <= m
              THEN stdout[k] = [line |-> "Scraping", n |-> k, of |-> N]
              ELSE /\ k = yielded
                   /\ stdout[k].line = "Error scraping control"
                   /\ \E i \in DOMAIN futures :
                         /\ Failed(i)
                         /\ stdout[k].id = navtree_parsed[i].id
                         /\ Some(stdout[k].e) = futures[i].exception

\* a success was observed, then a failure: one progress line, one error line
C8_Witness ==
    /\ Len(stdout) = 2
    /\ stdout[1] = [line |-> "Scraping", n |-> 1, of |-> 2]
    /\ stdout[2].line = "Error scraping control"

AllFinished == Len(futures) = N /\ \A i \in DOMAIN futures : futures[i].state = "FINISHED"

\* while total is set, every dispatched fetch has completed and total is the
\* number of records; an aborted run leaves it unset, a completed run has it
C9_TotalInv ==
    /\ total # None =>
          /\ pc \in {"save", "exited"}
          /\ AllFinished /\ yielded = N /\ threads_joined
          /\ total = Some(Len(controls))
          /\ exit_code # Some(1)
    /\ (pc = "abort" \/ exit_code = Some(1)) => total = None
    /\ exit_code = Some(0) => total # None

\* total changes only from unset to the number of records, every dispatched
\* fetch having completed before
C9_TotalStep ==
    total' # total =>
        /\ total = None
        /\ AllFinished /\ yielded = N
        /\ total' = Some(Len(controls))

\* C9: total is assigned at most once in a run, and exactly once in a run
\* that completes; the assignment comes strictly after every dispatched fetch
\* has completed and gives the number of records in controls; total is never
\* set while a fetch is outstanding, nor in a run that aborts.
C9_TotalSetOnce == [] C9_TotalInv /\ [][C9_TotalStep]_vars

\* a completed run over two items that share an id: total is 1, not 2
C9_Witness ==
    pc = "exited" /\ N = 2 /\ total = Some(1) /\ Len(controls) = 1

InFlight == { i \in DOMAIN futures : futures[i].state = "RUNNING" }

\* the fetches in flight are those the workers hold, one each
C10_InFlightInv ==
    /\ Cardinality(InFlight) <= NUM_THREADS
    /\ InFlight = { worker[w] : w \in DOMAIN worker } \ {0}
    /\ \A v, w \in DOMAIN worker : (v # w /\ worker[v] # 0) => worker[v] # worker[w]

\* a worker lets go of a fetch only when that fetch has finished, and is idle then
C10_WorkerStep ==
    \A w \in DOMAIN worker :
        (worker[w] # 0 /\ worker'[w] # worker[w]) =>
            worker'[w] = 0 /\ futures'[worker[w]].state = "FINISHED"

\* C10 (bounded concurrency): with a pool of NUM_THREADS workers at most
\* NUM_THREADS fetches are in flight in any reachable state, and each worker
\* runs its fetch to completion before it takes the next queued item.
C10_BoundedConcurrency == [] C10_InFlightInv /\ [][C10_WorkerStep]_vars

\* the pool is saturated while an item waits in the queue
C10_Witness ==
    /\ Cardinality(InFlight) = NUM_THREADS
    /\ work_queue # <<>>

\* C11 (single writer): every step that changes controls or total is a step
\* of the consuming main thread (the loop body, or line 116) and no step of
\* a worker thread: it leaves the workers, the futures, the queue and the
\* responses as they are, and it stores at most one record.
C11_SingleWriter ==
    [][ (controls' # controls \/ total' # total) =>
          /\ pc \in {"as_completed", "total"}
          /\ UNCHANGED <<worker, futures, work_queue, resp>>
          /\ (controls' # controls =>
                /\ Len(observed') = Len(observed) + 1
                /\ total' = total
                /\ Len(controls') <= Len(controls) + 1) ]_vars

\* a record has been stored while a fetch is still running on a worker
C11_Witness ==
    Len(controls) >= 1 /\ InFlight # {}

\* the places an item is at: queued, held by a worker, or finished
Places(i) ==
    Cardinality({ j \in DOMAIN work_queue : work_queue[j] = i })
    + Cardinality({ w \in DOMAIN worker : worker[w] = i })
    + (IF futures[i].state = "FINISHED" THEN 1 ELSE 0)

\* every item of the work list gets one future; a submitted item is in
\* exactly one place; none is left out when the loop starts or the run ends
C12_OnePlace ==
    /\ Len(futures) <= N
    /\ pc \notin {"parse", "submit"} /\ "navtree" \in DOMAIN navtree_json => Len(futures) = N
    /\ \A i \in DOMAIN futures :
          /\ Places(i) = 1
          /\ (futures[i].state = "FINISHED" <=> i \in DOMAIN resp)
          /\ (pc = "exited" => futures[i].state = "FINISHED")
    /\ \A j, k \in DOMAIN observed : j # k => observed[j] # observed[k]

\* a future only moves forward, PENDING to RUNNING to FINISHED, and a
\* finished fetch, failed or not, stays as it ended
C12_Forward ==
    /\ Len(futures') >= Len(futures)
    /\ \A i \in DOMAIN futures :
          /\ futures[i].state = "RUNNING" => futures'[i].state \in {"RUNNING", "FINISHED"}
          /\ futures[i].state = "FINISHED" => futures'[i] = futures[i] /\ resp'[i] = resp[i]

\* C12 (dispatched exactly once): every leaf item of the work list is
\* submitted once and fetched once: none is skipped, none is fetched twice,
\* and a failed fetch is never run again.
C12_DispatchedOnce == [] C12_OnePlace /\ [][C12_Forward]_vars

\* a run over two items has ended after a failed fetch, both fetched once
C12_Witness ==
    /\ pc = "exited" /\ N = 2 /\ AnyFailed
    /\ DOMAIN resp = 1..2

\* the items observed with a result, in the order of observation
RECURSIVE Stored(_)
Stored(obs) ==
    IF obs = <<>> THEN <<>>
    ELSE LET rest == Stored(SubSeq(obs, 1, Len(obs) - 1))
             i == obs[Len(obs)]
         IN  IF futures[i].exception = None THEN Append(rest, i) ELSE rest

\* the ids of a sequence of items, each at the place of its first occurrence
RECURSIVE FirstIds(_)
FirstIds(items) ==
    IF items = <<>> THEN <<>>
    ELSE LET rest == FirstIds(SubSeq(items, 1, Len(items) - 1))
             id == navtree_parsed[items[Len(items)]].id
         IN  IF \E j \in DOMAIN rest : rest[j] = id THEN rest ELSE Append(rest, id)

\* C13 (tabular serialization): a csv file saved from K controls is one header
\* row with the eleven fixed field names followed by exactly K rows, the
\* j-th row holding the j-th control of the map's iteration order - the
\* order in which the ids were first inserted by observed completions - with
\* its values in the order of the header.
C13_Tabular ==
    (output_file # None /\ output_file[1].format = "csv") =>
        LET rows == output_file[1].content
            ids == FirstIds(Stored(observed))
        IN  /\ Len(rows) = 1 + Len(controls)
            /\ Len(ids) = Len(controls)
            /\ rows[1] = << "id", "key", "title", "assessment_status", "description",
                            "rationale", "impact", "audit", "remediation",
                            "default_value", "references" >>
            /\ \A j \in DOMAIN controls :
                  LET r == controls[j].v
                  IN  /\ controls[j].k = ids[j]
                      /\ r.id = ids[j]
                      /\ rows[j + 1] =
                            << r.id, r.key, r.title, r.assessment_status, r.description,
                               r.rationale, r.impact, r.audit, r.remediation,
                               r.default_value, r.references >>

\* a csv file of two rows, the first for the item submitted second
C13_Witness ==
    /\ output_file # None /\ output_file[1].format = "csv"
    /\ Len(output_file[1].content) = 3
    /\ observed = <<2, 1>>
    /\ output_file[1].content[2][1] = navtree_parsed[2].id

\* a text with no whitespace at either end
Trimmed(text) == text = <<>> \/ (text[1] \notin WS /\ text[Len(text)] \notin WS)

\* C14 (text normalization): __parse_text returns a text that is already
\* trimmed unchanged, returns the empty text for a text of whitespace only,
\* and applied to its own result returns that result again, for every text;
\* its result is the text between the first and the last non-whitespace
\* character.
C14_TextNormalization ==
    extracted # None =>
        LET r == extracted[1]
        IN  /\ (Trimmed(raw_text) => r = raw_text)
            /\ ((\A j \in DOMAIN raw_text : raw_text[j] \in WS) => r = <<>>)
            /\ parse_text(r) = r
            /\ Trimmed(r)
            /\ \E a, b \in 0..Len(raw_text) :
                  /\ r = SubSeq(raw_text, a + 1, b)
                  /\ \A j \in DOMAIN raw_text : (j <= a \/ j > b) => raw_text[j] \in WS

\* a text with whitespace on both sides of a word has been trimmed
C14_Witness ==
    /\ extracted # None
    /\ Len(raw_text) = 3 /\ raw_text[1] \in WS /\ raw_text[3] \in WS
    /\ extracted[1] = <<raw_text[2]>> /\ raw_text[2] \notin WS

\* the item observed last, with a result, among those of the given id
LastStored(id) ==
    LET st == Stored(observed)
        at == { j \in DOMAIN st : navtree_parsed[st[j]].id = id }
    IN  st[CHOOSE j \in at : \A k \in at : k <= j]

\* C15 (duplicate ids, last write wins): items that share an id are all
\* dispatched and fetched; controls holds one entry per id, and it is the
\* record of the item of that id whose successful completion was observed
\* last, whatever the items' order in the work list.
C15_LastWriteWins ==
    /\ DictKeys(controls) = { navtree_parsed[i].id : i \in { Stored(observed)[j] : j \in DOMAIN Stored(observed) } }
    /\ Len(controls) = Cardinality(DictKeys(controls))
    /\ \A id \in DictKeys(controls) :
          Some(DictValue(controls, id)) = futures[LastStored(id)].result
    /\ (pc = "exited" /\ exit_code = Some(0)) =>
          /\ DOMAIN resp = 1..N /\ Len(observed) = N
          /\ \A i \in 1..N :
                DictValue(controls, navtree_parsed[i].id).title
                    = navtree_parsed[LastStored(navtree_parsed[i].id)].title

\* two items share an id; the one listed first was observed last and its
\* record is the one kept
C15_Witness ==
    /\ pc = "exited" /\ exit_code = Some(0) /\ N = 2
    /\ navtree_parsed[1].id = navtree_parsed[2].id
    /\ navtree_parsed[1].title # navtree_parsed[2].title
    /\ observed = <<2, 1>>
    /\ Len(controls) = 1
    /\ controls[1].v.title = navtree_parsed[1].title

\* the same two items, observed in the order of the work list: the record of
\* the item listed second is the one kept
C15_OtherWinner ==
    /\ pc = "exited" /\ exit_code = Some(0) /\ N = 2
    /\ navtree_parsed[1].id = navtree_parsed[2].id
    /\ navtree_parsed[1].title # navtree_parsed[2].title
    /\ observed = <<1, 2>>
    /\ controls[1].v.title = navtree_parsed[2].title

RECURSIVE NodesBelow(_)
\* a node and all the nodes below it
NodesBelow(node) ==
    {node} \cup UNION { UNION { NodesBelow(Kids(node, key)[j]) : j \in DOMAIN Kids(node, key) } :
                          key \in {SUBS, RECS} }

\* C16 (per-key tests): a node that carries exactly one of the two keys is
\* classified by which key is absent, not by whether it has children: with
\* the subsections key absent it is emitted as a LeafItem, also when it has
\* recommendations below it; with the recommendations key absent it is not
\* emitted, also when its list of subsections is empty.
C16_PerKeyTests ==
    pc = "submit" =>
        \A j \in DOMAIN navtree_json["navtree"] :
            \A node \in NodesBelow(navtree_json["navtree"][j]) :
                LET out == \E k \in DOMAIN navtree_parsed : navtree_parsed[k] = LeafItem(node)
                IN  /\ (RECS \in DOMAIN node /\ SUBS \notin DOMAIN node) => out
                    /\ (SUBS \in DOMAIN node /\ RECS \notin DOMAIN node) => ~ out

\* a section with one recommendation and no subsections key has been
\* emitted, after its recommendation
C16_Witness ==
    /\ pc = "submit"
    /\ Len(navtree_json["navtree"]) = 1
    /\ RECS \in DOMAIN navtree_json["navtree"][1]
    /\ SUBS \notin DOMAIN navtree_json["navtree"][1]
    /\ Len(navtree_json["navtree"][1][RECS]) = 1
    /\ navtree_parsed = << LeafItem(navtree_json["navtree"][1][RECS][1]),
                            LeafItem(navtree_json["navtree"][1]) >>

\* a node with an empty list of subsections and no recommendations key has
\* not been emitted, although it has no children
C16_LeafNotEmitted ==
    /\ pc = "submit"
    /\ navtree_json["navtree"] = << SectionAttrs @@ (SUBS :> <<>>) >>
    /\ navtree_parsed = <<>>

\* flattening is over before anything is dispatched, saving comes after the
\* aggregation, and a run without a navigation tree fetches and saves nothing
C17_PhaseInv ==
    /\ (futures # <<>> \/ resp # <<>>) =>
          /\ pc # "parse"
          /\ navtree_parsed = extract_each(navtree_json["navtree"], <<>>)
    /\ (pc \in {"total", "save"} \/ output_file # None) =>
          AllFinished /\ yielded = N /\ threads_joined /\ yieldq = <<>>
    /\ output_file # None => pc = "exited"
    /\ "navtree" \notin DOMAIN navtree_json =>
          /\ pc \in {"parse", "exited"}
          /\ futures = <<>> /\ work_queue = <<>> /\ resp = <<>>
          /\ output_file = None
          /\ (pc = "exited" => exit_code = Some(1))

\* the work list is written once, by the parse step, before any submit
C17_PhaseStep ==
    /\ navtree_parsed' # navtree_parsed => pc = "parse" /\ futures = <<>>
    /\ futures' # futures => navtree_parsed' = navtree_parsed /\ pc # "parse"
    /\ output_file' # output_file => pc = "save" /\ futures' = futures /\ controls' = controls

\* C17 (phase ordering): the whole navigation tree is flattened before the
\* first fetch is dispatched, the file is written only after the aggregation
\* phase has ended, and a failure to get the navigation tree ends the run
\* with status 1 before any detail fetch and with no output.
C17_PhaseOrdering == [] C17_PhaseInv /\ [][C17_PhaseStep]_vars

\* the navtree document had no tree: the run has ended with status 1,
\* nothing dispatched
C17_Witness ==
    /\ navtree_json = NoNavtree
    /\ pc = "exited" /\ exit_code = Some(1)
    /\ futures = <<>> /\ output_file = None

\* the run is over: the file is written after every fetch succeeded, or the
\* status is 1 and nothing is written
C18_Terminated ==
    /\ pc = "exited"
    /\ \/ exit_code = Some(0) /\ output_file # None /\ AllSucceeded
       \/ exit_code = Some(1) /\ output_file = None

\* while a fetch has not returned, the run has neither ended nor written
C18_HungFetchBlocks ==
    InFlight # {} =>
        /\ output_file = None
        /\ pc # "exited"
        /\ \A i \in InFlight : \E w \in DOMAIN worker : worker[w] = i

\* nothing but the return of its fetch frees a worker's slot: there is no
\* timeout step
C18_SlotHeld ==
    \A w \in DOMAIN worker :
        (worker[w] # 0 /\ worker'[w] # worker[w]) =>
            /\ worker'[w] = 0
            /\ futures[worker[w]].state = "RUNNING"
            /\ futures'[worker[w]].state = "FINISHED"
            /\ worker[w] \in DOMAIN resp'

\* C18 (termination): every fetch returning or raising and the threads being
\* scheduled, the run ends, either with the file written after every fetch
\* succeeded or with status 1; and a fetch that has not returned holds its
\* worker's slot, which only its return frees, and keeps the run from
\* writing the file.
C18_Termination ==
    /\ <> C18_Terminated
    /\ [] C18_HungFetchBlocks
    /\ [][C18_SlotHeld]_vars

\* one worker has run two fetches one after the other, both succeeded, and
\* the run has ended with the file written
C18_Witness ==
    /\ C18_Terminated /\ exit_code = Some(0)
    /\ NUM_THREADS = 1 /\ N = 2 /\ DOMAIN resp = 1..2

\* the entries of controls come from observed successes, each stored under
\* its own id, at most one per completion observed
C19_ResultMap ==
    /\ \A j \in DOMAIN controls :
          /\ \E n \in DOMAIN observed :
                /\ observed[n] \in DOMAIN navtree_parsed
                /\ navtree_parsed[observed[n]].id = controls[j].k
                /\ Succeeded(observed[n])
          /\ controls[j].v.id = controls[j].k
    /\ Len(controls) <= Len(observed)
    /\ Len(observed) = yielded

\* C19 (result map): in every reachable state each key of controls is the id
\* of a leaf item whose fetch has succeeded and has been observed by the
\* loop, the record stored under a key has that key as its id, and controls
\* has no more entries than completions observed so far.
C19_ResultMapInvariant == C19_ResultMap

\* item 2 has been observed and stored while item 1, whose fetch has also
\* succeeded, has not been observed yet and has no entry
C19_Witness ==
    /\ pc = "as_completed" /\ N = 2 /\ DistinctIds
    /\ observed = <<2>> /\ Succeeded(1)
    /\ DictKeys(controls) = {navtree_parsed[2].id}

====
